---- MODULE Spec2Model ----
(***************************************************************************)
(* Temporal strategies of hypothesis: the capped multi-part draw of dates, *)
(* times, datetimes and timedeltas, the search for "nasty" aware           *)
(* datetimes, the leap-second table, and the public constructors.          *)
(*                                                                         *)
(* A datetime-like value is a record of integer fields named as in Python  *)
(* (year .. microsecond, fold).  An aware value pairs such a record with   *)
(* the name of its timezone.  An instant is <<ordinal, second, micro>>:    *)
(* the proleptic Gregorian day number, the second of the day and the       *)
(* microsecond, which is how datetime arithmetic is carried out.           *)
(***************************************************************************)
EXTENDS Integers, Sequences, FiniteSets, TLC

(* ---------------------------------------------------------------- bounds *)

\* The engine may answer a bounded-integer draw with low, high, the center,
\* or one of the Spread values that follow low.
Spread == 0

\* Iterations of the bisection loop that are followed.
MaxBisect == 2

\* Calls of get_leap_seconds that are followed.
MaxCalls == 2

\* Threads that call get_leap_seconds() side by side.
NThreads == 3

(* ------------------------------------------------- names and type limits *)

DATENAMES == <<"year", "month", "day">>

TIMENAMES == <<"hour", "minute", "second", "microsecond">>

TIMEDELTANAMES == <<"days", "seconds", "microseconds">>

DatetimeMin ==
    [year |-> 1, month |-> 1, day |-> 1,
     hour |-> 0, minute |-> 0, second |-> 0, microsecond |-> 0]

DatetimeMax ==
    [year |-> 9999, month |-> 12, day |-> 31,
     hour |-> 23, minute |-> 59, second |-> 59, microsecond |-> 999999]

TimedeltaMin == [days |-> -999999999, seconds |-> 0, microseconds |-> 0]

TimedeltaMax == [days |-> 999999999, seconds |-> 86399, microseconds |-> 999999]

\* Number of days from 0001-01-01 to 9999-12-31, the last ordinal of a date.
MaxOrdinal == 3652059

SecondsPerDay == 86400

MicrosPerSecond == 1000000

(* ------------------------------------------------------ calendar helpers *)

IsLeapYear(y) == y % 4 = 0 /\ (y % 100 # 0 \/ y % 400 = 0)

\* calendar.monthrange(year, month)[1]: the number of days of the month.
monthrange(year, month) ==
    IF month = 2 THEN (IF IsLeapYear(year) THEN 29 ELSE 28)
    ELSE IF month \in {4, 6, 9, 11} THEN 30
    ELSE 31

DaysBeforeYear(y) ==
    LET n == y - 1 IN n * 365 + (n \div 4) - (n \div 100) + (n \div 400)

RECURSIVE DaysBeforeMonth(_, _)
DaysBeforeMonth(y, m) ==
    IF m <= 1 THEN 0 ELSE DaysBeforeMonth(y, m - 1) + monthrange(y, m - 1)

Ymd2Ord(y, m, d) == DaysBeforeYear(y) + DaysBeforeMonth(y, m) + d

\* The year an ordinal falls in (for ordinals of representable dates).
Ord2Year(n) ==
    LET est == (((n - 1) * 400) \div 146097) + 1
    IN  CHOOSE y \in {est - 1, est, est + 1} :
            DaysBeforeYear(y) < n /\ n <= DaysBeforeYear(y + 1)

\* Lexicographic comparison of two records on the fields `names`: -1, 0, 1.
RECURSIVE Cmp(_, _, _)
Cmp(a, b, names) ==
    IF names = <<>> THEN 0
    ELSE LET n == Head(names)
         IN  IF a[n] < b[n] THEN -1
             ELSE IF a[n] > b[n] THEN 1
             ELSE Cmp(a, b, Tail(names))

LE(a, b, names) == Cmp(a, b, names) <= 0

\* Whether the date fields of f name a day of the calendar.
ValidDate(f) ==
    /\ f.year \in 1..9999
    /\ f.month \in 1..12
    /\ f.day >= 1
    /\ f.day <= monthrange(f.year, f.month)

(* -------------------------------------------------- instants, timedeltas *)

ToInstant(f) ==
    <<Ymd2Ord(f.year, f.month, f.day),
      f.hour * 3600 + f.minute * 60 + f.second,
      f.microsecond>>

InstLess(a, b) ==
    \/ a[1] < b[1]
    \/ a[1] = b[1] /\ a[2] < b[2]
    \/ a[1] = b[1] /\ a[2] = b[2] /\ a[3] < b[3]

\* instant + timedelta(seconds=s)
InstAdd(t, s) ==
    LET total == t[2] + s
    IN  <<t[1] + (total \div SecondsPerDay), total % SecondsPerDay, t[3]>>

\* datetime arithmetic raises OverflowError outside date.min .. date.max
InRange(t) == t[1] >= 1 /\ t[1] <= MaxOrdinal

\* A normalised timedelta, as Python keeps it.
TdNorm(d, s, us) ==
    LET s2 == s + (us \div MicrosPerSecond)
    IN  [days |-> d + (s2 \div SecondsPerDay),
         seconds |-> s2 % SecondsPerDay,
         microseconds |-> us % MicrosPerSecond]

TdAbs(td) ==
    IF td.days < 0 THEN TdNorm(-td.days, -td.seconds, -td.microseconds) ELSE td

TdLess(a, b) == Cmp(a, b, TIMEDELTANAMES) < 0

(* ------------------------------------------------------------- timezones *)

\* The timezone objects a timezone strategy of the model can provide:
\*   "None"    no timezone (a naive value)
\*   "UTC"     dt.timezone.utc
\*   "PLUS1"   dt.timezone(dt.timedelta(hours=1)), a fixed offset
\*   "DSTZONE" a fold-aware rule zone (standard time UTC+1, summer time UTC+2
\*             from 02:00 on March 25 to 03:00 on October 28 of each year)
\*   "PYTZ"    a pytz zone with the same rule
NoTz == "None"

TzObjects == {"UTC", "PLUS1", "DSTZONE", "PYTZ"}

StdOffset == 3600

DstOffset == 7200

\* month, day and hour of a local time as one number, to place it among the
\* transitions of the rule zone.
RuleKey(f) == f.month * 10000 + f.day * 100 + f.hour

GapKey == 32502

FoldKey == 102802

Fold(f) == IF "fold" \in DOMAIN f THEN f.fold ELSE 0

\* tz.utcoffset(value), in seconds, from the local fields and the fold.
utcoffset(tz, f) ==
    IF tz = "UTC" THEN 0
    ELSE IF tz = "PLUS1" THEN StdOffset
    ELSE LET k == RuleKey(f)
         IN  IF k = GapKey THEN (IF Fold(f) = 0 THEN StdOffset ELSE DstOffset)
             ELSE IF k > GapKey /\ k < FoldKey THEN DstOffset
             ELSE IF k = FoldKey THEN (IF Fold(f) = 0 THEN DstOffset ELSE StdOffset)
             ELSE StdOffset

\* tz.fromutc(t): the local instant of the UTC instant t, or an overflow.
fromutc(tz, t) ==
    LET off ==
            IF tz = "UTC" THEN 0
            ELSE IF tz = "PLUS1" THEN StdOffset
            ELSE LET y == Ord2Year(t[1])
                     start == <<Ymd2Ord(y, 3, 25), 3600, 0>>
                     end == <<Ymd2Ord(y, 10, 28), 3600, 0>>
                 IN  IF ~InstLess(t, start) /\ InstLess(t, end)
                     THEN DstOffset ELSE StdOffset
        local == InstAdd(t, off)
    IN  [ok |-> InRange(local), t |-> local]

\* value.astimezone(dt.timezone.utc): the UTC instant, or an overflow.
astimezone_utc(v) ==
    LET t == InstAdd(ToInstant(v.f), -utcoffset(v.tzinfo, v.f))
    IN  [ok |-> InRange(t), t |-> t]

is_pytz_timezone(tz) == tz = "PYTZ"

\* timezone.localize(value, is_dst) of pytz looks one day to either side of
\* the value, which overflows within a day of the ends of the range.
LocalizeOverflows(f) ==
    LET ord == Ymd2Ord(f.year, f.month, f.day)
    IN  ord - 1 < 1 \/ ord + 1 > MaxOrdinal

\* replace_tzinfo(value, timezone): [ok, v]; ok is false on OverflowError.
replace_tzinfo(f, timezone) ==
    IF is_pytz_timezone(timezone)
    THEN [ok |-> ~LocalizeOverflows(f), v |-> [f |-> f, tzinfo |-> timezone]]
    ELSE [ok |-> TRUE, v |-> [f |-> f, tzinfo |-> timezone]]

\* value.replace(tzinfo=tz) of a naive bound: the fold of a bound is 0.
AsAware(f, tz) == [f |-> f @@ [fold |-> 0], tzinfo |-> tz]

\* value.replace(fold=k)
WithFold(v, k) == [v EXCEPT !.f = [n \in DOMAIN v.f |-> IF n = "fold" THEN k ELSE v.f[n]]]

(* ------------------------------------------------- the leap-second table *)

_leapsec(year, month) ==
    LET day == IF month = 6 THEN 30 ELSE 31
    IN  [f |-> [year |-> year, month |-> month, day |-> day,
                hour |-> 23, minute |-> 59, second |-> 59, microsecond |-> 0,
                fold |-> 0],
         tzinfo |-> "UTC"]

\* As leapsecs, with an entry for June 2000 in place of December 1998.
leapsecs_With2000 ==
    << _leapsec(1972, 6), _leapsec(1972, 12), _leapsec(1973, 12),
       _leapsec(1974, 12), _leapsec(1975, 12), _leapsec(1976, 12),
       _leapsec(1977, 12), _leapsec(1978, 12), _leapsec(1979, 12),
       _leapsec(1981, 6), _leapsec(1982, 6), _leapsec(1983, 6),
       _leapsec(1985, 6), _leapsec(1987, 12), _leapsec(1989, 12),
       _leapsec(1990, 12), _leapsec(1992, 6), _leapsec(1993, 6),
       _leapsec(1994, 6), _leapsec(1995, 12), _leapsec(1997, 6),
       _leapsec(2000, 6), _leapsec(2005, 12), _leapsec(2008, 12),
       _leapsec(2012, 6), _leapsec(2015, 6), _leapsec(2016, 12) >>

\* As leapsecs, with its first entry repeated.
leapsecs_Repeated ==
    << _leapsec(1972, 6), _leapsec(1972, 6), _leapsec(1973, 12),
       _leapsec(1974, 12), _leapsec(1975, 12), _leapsec(1976, 12),
       _leapsec(1977, 12), _leapsec(1978, 12), _leapsec(1979, 12),
       _leapsec(1981, 6), _leapsec(1982, 6), _leapsec(1983, 6),
       _leapsec(1985, 6), _leapsec(1987, 12), _leapsec(1989, 12),
       _leapsec(1990, 12), _leapsec(1992, 6), _leapsec(1993, 6),
       _leapsec(1994, 6), _leapsec(1995, 12), _leapsec(1997, 6),
       _leapsec(1998, 12), _leapsec(2005, 12), _leapsec(2008, 12),
       _leapsec(2012, 6), _leapsec(2015, 6), _leapsec(2016, 12) >>

\* The body of get_leap_seconds: the hardcoded table.
leapsecs ==
    << _leapsec(1972, 6), _leapsec(1972, 12), _leapsec(1973, 12),
       _leapsec(1974, 12), _leapsec(1975, 12), _leapsec(1976, 12),
       _leapsec(1977, 12), _leapsec(1978, 12), _leapsec(1979, 12),
       _leapsec(1981, 6), _leapsec(1982, 6), _leapsec(1983, 6),
       _leapsec(1985, 6), _leapsec(1987, 12), _leapsec(1989, 12),
       _leapsec(1990, 12), _leapsec(1992, 6), _leapsec(1993, 6),
       _leapsec(1994, 6), _leapsec(1995, 12), _leapsec(1997, 6),
       _leapsec(1998, 12), _leapsec(2005, 12), _leapsec(2008, 12),
       _leapsec(2012, 6), _leapsec(2015, 6), _leapsec(2016, 12) >>

\* The instants of the table, computed once.
LeapInstants == [i \in 1..Len(leapsecs) |-> ToInstant(leapsecs[i].f)]

HalfDay == 43200

\* The asserts that end the body of get_leap_seconds.
TableAssertsHold(table) ==
    /\ \A i \in 1..(Len(table) - 1) :
           LE(table[i].f, table[i + 1].f, <<"year", "month", "day", "hour",
                                            "minute", "second", "microsecond">>)
    /\ Len(table) = 27

\* A call of get_leap_seconds() through functools.lru_cache, by one caller
\* at a time: the body runs when nothing is cached, and its table is kept.
lru_cache(c) ==
    IF c.filled THEN c
    ELSE [filled |-> TRUE, table |-> leapsecs, builds |-> c.builds + 1]

(* ------------------------------------------------------------ classifier *)

\* A result that may be an exception: [raised, val].
Ret(b) == [raised |-> FALSE, val |-> b]

Raised == [raised |-> TRUE, val |-> FALSE]

datetime_does_not_exist(value) ==
    LET u == astimezone_utc(value)
    IN  IF ~u.ok THEN TRUE
        ELSE LET roundtrip == fromutc(value.tzinfo, u.t)
             IN  IF ~roundtrip.ok THEN TRUE
                 ELSE ToInstant(value.f) # roundtrip.t

datetime_is_ambiguous(value) ==
    LET fold_0 == astimezone_utc(WithFold(value, 0))
        fold_1 == astimezone_utc(WithFold(value, 1))
    IN  IF ~fold_0.ok \/ ~fold_1.ok THEN Raised
        ELSE Ret(fold_0.t # fold_1.t)

\* value - leap, both aware: a timedelta.
AwareSub(value, t) ==
    LET a == ToInstant(value.f)
    IN  TdNorm(a[1] - t[1],
               (a[2] - t[2]) - utcoffset(value.tzinfo, value.f),
               a[3] - t[3])

datetime_in_leap_smear(value) ==
    \E i \in DOMAIN LeapInstants :
        TdLess(TdAbs(AwareSub(value, LeapInstants[i])),
               [days |-> 0, seconds |-> HalfDay, microseconds |-> 0])

datetime_is_nasty(value) ==
    IF datetime_does_not_exist(value) THEN Ret(TRUE)
    ELSE LET amb == datetime_is_ambiguous(value)
         IN  IF amb.raised THEN Raised
             ELSE IF amb.val THEN Ret(TRUE)
             ELSE Ret(datetime_in_leap_smear(value))

\* Whether (min_, max_) certainly contains a nasty datetime: "yes", "no",
\* or "raise" when a conversion to UTC overflows.
Qualifies(tz, min_, max_) ==
    IF utcoffset(tz, min_.f) # utcoffset(tz, max_.f) THEN "yes"
    ELSE LET a == astimezone_utc(min_)
             b == astimezone_utc(max_)
             before(i) == InstLess(a.t, InstAdd(LeapInstants[i], -HalfDay))
             after(i) == InstLess(InstAdd(LeapInstants[i], HalfDay), b.t)
         IN  IF ~a.ok THEN "raise"
             ELSE IF ~b.ok
             THEN (IF \E i \in DOMAIN LeapInstants : before(i) THEN "raise" ELSE "no")
             ELSE IF \E i \in DOMAIN LeapInstants : before(i) /\ after(i)
             THEN "yes" ELSE "no"

NoValue == [f |-> <<>>, tzinfo |-> NoTz]

\* Whether datetime_is_nasty(value) gets as far as datetime_in_leap_smear.
NastyReadsTable(value) ==
    /\ ~datetime_does_not_exist(value)
    /\ ~datetime_is_ambiguous(value).raised
    /\ ~datetime_is_ambiguous(value).val

Y2K == [year |-> 2000, month |-> 1, day |-> 1,
        hour |-> 0, minute |-> 0, second |-> 0, microsecond |-> 0]

\* As get_nasty_bounds, with the order of the two halves the other way round.
get_nasty_bounds_OtherOrder(lo, mid, hi) ==
    LET swap == ~LE(mid.f, Y2K, DATENAMES \o TIMENAMES)
        first == IF swap THEN <<mid, hi>> ELSE <<lo, mid>>
        second == IF swap THEN <<lo, mid>> ELSE <<mid, hi>>
        q1 == Qualifies(mid.tzinfo, first[1], first[2])
        q2 == Qualifies(mid.tzinfo, second[1], second[2])
    IN  IF q1 = "yes"
        THEN [raised |-> FALSE, none |-> FALSE, lo |-> first[1], hi |-> first[2]]
        ELSE IF q1 = "raise"
        THEN [raised |-> TRUE, none |-> FALSE, lo |-> NoValue, hi |-> NoValue]
        ELSE IF q2 = "yes"
        THEN [raised |-> FALSE, none |-> FALSE, lo |-> second[1], hi |-> second[2]]
        ELSE IF q2 = "raise"
        THEN [raised |-> TRUE, none |-> FALSE, lo |-> NoValue, hi |-> NoValue]
        ELSE [raised |-> FALSE, none |-> TRUE, lo |-> NoValue, hi |-> NoValue]

\* get_nasty_bounds(lo, mid, hi): [raised, none, lo, hi].
get_nasty_bounds(lo, mid, hi) ==
    LET swap == LE(mid.f, Y2K, DATENAMES \o TIMENAMES)
        first == IF swap THEN <<mid, hi>> ELSE <<lo, mid>>
        second == IF swap THEN <<lo, mid>> ELSE <<mid, hi>>
        q1 == Qualifies(mid.tzinfo, first[1], first[2])
        q2 == Qualifies(mid.tzinfo, second[1], second[2])
    IN  IF q1 = "yes"
        THEN [raised |-> FALSE, none |-> FALSE, lo |-> first[1], hi |-> first[2]]
        ELSE IF q1 = "raise"
        THEN [raised |-> TRUE, none |-> FALSE, lo |-> NoValue, hi |-> NoValue]
        ELSE IF q2 = "yes"
        THEN [raised |-> FALSE, none |-> FALSE, lo |-> second[1], hi |-> second[2]]
        ELSE IF q2 = "raise"
        THEN [raised |-> TRUE, none |-> FALSE, lo |-> NoValue, hi |-> NoValue]
        ELSE [raised |-> FALSE, none |-> TRUE, lo |-> NoValue, hi |-> NoValue]


\* Whether get_nasty_bounds(lo, mid, hi) calls get_leap_seconds(): it does
\* unless the offsets at the ends of the first interval differ.
BoundsReadTable(lo_, mid, hi_) ==
    LET swap == LE(mid.f, Y2K, DATENAMES \o TIMENAMES)
        first == IF swap THEN <<mid, hi_>> ELSE <<lo_, mid>>
    IN  utcoffset(mid.tzinfo, first[1].f) = utcoffset(mid.tzinfo, first[2].f)

(* ----------------------------------------------------- the engine (data) *)

NoCenter == [given |-> FALSE, v |-> 0]

Center(c) == [given |-> TRUE, v |-> c]

NoForced == [given |-> FALSE, v |-> 0]

\* utils.integer_range(data, low, high, center, forced): the values the
\* engine may return.  A forced value is returned as it is.
integer_range(low, high, center, forced) ==
    IF forced.given THEN {forced.v}
    ELSE {low, high}
         \cup {low + k : k \in {j \in 1..Spread : low + j <= high}}
         \cup (IF center.given /\ center.v >= low /\ center.v <= high
               THEN {center.v} ELSE {})

\* The record of one draw kept by the engine: the kinds of draws made, the
\* kinds whose outcome the engine could choose, the calls of
\* draw_capped_multipart, the open and closed example groups (a closed group
\* is its discard flag), the events noted, the construction failures, and
\* whether a forced value outside its range was asked for.
NewData ==
    [made |-> {}, free |-> {}, calls |-> 0, depth |-> 0, closed |-> <<>>,
     events |-> 0, failures |-> 0, bad_forced |-> FALSE]

NoteDraw(d, label, choices) ==
    [d EXCEPT !.made = @ \cup {label},
              !.free = IF Cardinality(choices) > 1 THEN @ \cup {label} ELSE @]

NoteInt(d, label, low, high, forced) ==
    [d EXCEPT !.made = @ \cup {label},
              !.free = IF ~forced.given /\ low < high THEN @ \cup {label} ELSE @,
              !.bad_forced = @ \/ (forced.given /\ (forced.v < low \/ forced.v > high))]

start_example(d) == [d EXCEPT !.depth = @ + 1]

\* As stop_example, with the discard flag dropped.
stop_example_NoDiscard(d, discard) ==
    [d EXCEPT !.depth = @ - 1, !.closed = Append(@, FALSE)]

stop_example(d, discard) ==
    [d EXCEPT !.depth = @ - 1, !.closed = Append(@, discard)]

note_event(d) == [d EXCEPT !.events = @ + 1]

(* --------------------------------------------------- constructor inputs *)

Date(y, m, d) ==
    [type |-> "date", tzinfo |-> NoTz, f |-> [year |-> y, month |-> m, day |-> d]]

Time(h, mi, s, us, tzinfo) ==
    [type |-> "time", tzinfo |-> tzinfo,
     f |-> [hour |-> h, minute |-> mi, second |-> s, microsecond |-> us]]

Datetime(y, m, d, h, mi, s, us, tzinfo) ==
    [type |-> "datetime", tzinfo |-> tzinfo,
     f |-> [year |-> y, month |-> m, day |-> d,
            hour |-> h, minute |-> mi, second |-> s, microsecond |-> us]]

Timedelta(d, s, us) ==
    [type |-> "timedelta", tzinfo |-> NoTz, f |-> TdNorm(d, s, us)]

\* A value that is no date, time, datetime or timedelta.
Other == [type |-> "other", tzinfo |-> NoTz, f |-> <<>>]

\* A timezone source: a strategy that provides one of tzs, or no strategy.
TzStrategy(tzs) == [strategy |-> TRUE, tzs |-> tzs]

NotAStrategy == [strategy |-> FALSE, tzs |-> {}]

DatesInputs ==
    { <<Date(2001, 2, 27), Date(2001, 3, 1)>>,
      <<Date(2021, 1, 1), Date(2021, 1, 31)>>,
      <<Date(1999, 12, 31), Date(2000, 3, 1)>>,
      <<Date(1, 1, 1), Date(9999, 12, 31)>>,
      <<Date(2000, 1, 1), Date(2000, 1, 1)>>,
      <<Date(2001, 1, 2), Date(2001, 1, 1)>>,
      <<Other, Date(2001, 1, 1)>>,
      <<Date(2001, 1, 1), Other>> }

TimesInputs ==
    { <<Time(0, 0, 0, 0, NoTz), Time(23, 59, 59, 999999, NoTz), TzStrategy({NoTz})>>,
      <<Time(9, 59, 59, 0, NoTz), Time(10, 0, 0, 0, NoTz), TzStrategy({NoTz, "UTC"})>>,
      <<Time(10, 30, 0, 0, NoTz), Time(10, 30, 0, 0, NoTz), TzStrategy({NoTz})>>,
      <<Time(10, 30, 0, 0, NoTz), Time(10, 30, 0, 0, NoTz), TzStrategy({"UTC"})>>,
      <<Time(10, 30, 0, 0, NoTz), Time(11, 30, 0, 0, NoTz), NotAStrategy>>,
      <<Time(10, 30, 0, 1, NoTz), Time(10, 30, 0, 0, NoTz), TzStrategy({NoTz})>>,
      <<Time(10, 30, 0, 0, "UTC"), Time(11, 30, 0, 0, NoTz), TzStrategy({NoTz})>>,
      <<Time(10, 30, 0, 0, NoTz), Time(11, 30, 0, 0, "UTC"), TzStrategy({NoTz})>>,
      <<Other, Time(11, 30, 0, 0, NoTz), TzStrategy({NoTz})>>,
      <<Time(10, 30, 0, 0, NoTz), Other, TzStrategy({NoTz})>> }

TimedeltasInputs ==
    { <<Timedelta(-1, 0, 0), Timedelta(1, 0, 0)>>,
      <<Timedelta(-999999999, 0, 0), Timedelta(999999999, 86399, 999999)>>,
      <<Timedelta(0, 0, -1), Timedelta(0, 1, 0)>>,
      <<Timedelta(0, 0, 0), Timedelta(0, 0, 0)>>,
      <<Timedelta(0, 0, 1), Timedelta(0, 0, 0)>>,
      <<Other, Timedelta(0, 0, 0)>>,
      <<Timedelta(0, 0, 0), Other>> }

\* Naive datetimes: the whole range, the end of a February, equal bounds.
NaiveDatetimesInputs ==
    { <<Datetime(1, 1, 1, 0, 0, 0, 0, NoTz),
        Datetime(9999, 12, 31, 23, 59, 59, 999999, NoTz), TzStrategy({NoTz})>>,
      <<Datetime(2001, 2, 27, 0, 0, 0, 0, NoTz),
        Datetime(2001, 3, 1, 0, 0, 0, 0, NoTz), TzStrategy({NoTz})>>,
      <<Datetime(2000, 1, 1, 0, 0, 0, 0, NoTz),
        Datetime(2000, 1, 1, 0, 0, 0, 0, NoTz), TzStrategy({NoTz})>> }

\* Aware datetimes: around the leap second of 2016, across the gap of the
\* rule zone, across its repeated hour, at the ends of the range, and equal
\* bounds (one on a June 30 without a leap second).
AwareDatetimesInputs ==
    { <<Datetime(2016, 12, 31, 11, 59, 58, 0, NoTz),
        Datetime(2017, 1, 1, 12, 0, 0, 0, NoTz), TzStrategy({"UTC", "PLUS1"})>>,
      <<Datetime(2001, 3, 25, 2, 30, 0, 0, NoTz),
        Datetime(2001, 3, 25, 3, 30, 0, 0, NoTz), TzStrategy({"DSTZONE"})>>,
      <<Datetime(2001, 10, 28, 2, 59, 59, 0, NoTz),
        Datetime(2001, 10, 28, 3, 0, 0, 1, NoTz), TzStrategy({"DSTZONE"})>>,
      <<Datetime(1, 1, 1, 0, 0, 0, 0, NoTz),
        Datetime(1, 1, 1, 0, 0, 1, 0, NoTz), TzStrategy({"PLUS1"})>>,
      <<Datetime(9999, 12, 31, 23, 59, 58, 0, NoTz),
        Datetime(9999, 12, 31, 23, 59, 59, 0, NoTz), TzStrategy({"PYTZ"})>>,
      <<Datetime(2000, 6, 30, 23, 59, 59, 0, NoTz),
        Datetime(2000, 6, 30, 23, 59, 59, 0, NoTz), TzStrategy({NoTz, "UTC"})>>,
      <<Datetime(2001, 3, 25, 2, 30, 0, 0, NoTz),
        Datetime(2001, 3, 25, 2, 30, 0, 0, NoTz), TzStrategy({"DSTZONE"})>> }

MalformedDatetimesInputs ==
    { <<Datetime(2001, 1, 2, 0, 0, 0, 0, NoTz),
        Datetime(2001, 1, 1, 0, 0, 0, 0, NoTz), TzStrategy({NoTz})>>,
      <<Datetime(2001, 1, 1, 0, 0, 0, 0, "UTC"),
        Datetime(2001, 1, 2, 0, 0, 0, 0, NoTz), TzStrategy({NoTz})>>,
      <<Datetime(2001, 1, 1, 0, 0, 0, 0, NoTz),
        Datetime(2001, 1, 2, 0, 0, 0, 0, "UTC"), TzStrategy({NoTz})>>,
      <<Other, Datetime(2001, 1, 2, 0, 0, 0, 0, NoTz), TzStrategy({NoTz})>>,
      <<Datetime(2001, 1, 1, 0, 0, 0, 0, NoTz), Other, TzStrategy({NoTz})>>,
      <<Datetime(2001, 1, 1, 0, 0, 0, 0, NoTz),
        Datetime(2001, 1, 2, 0, 0, 0, 0, NoTz), NotAStrategy>> }

DatetimesInputs ==
    NaiveDatetimesInputs \cup AwareDatetimesInputs \cup MalformedDatetimesInputs

\* Bounds and timezone sources the earlier DatetimeStrategy is built with.
LegacyInputs ==
    { <<Datetime(2001, 2, 27, 0, 0, 0, 0, NoTz),
        Datetime(2001, 3, 1, 0, 0, 0, 0, NoTz), TzStrategy({NoTz, "UTC"})>>,
      <<Datetime(9999, 12, 31, 23, 59, 58, 0, NoTz),
        Datetime(9999, 12, 31, 23, 59, 59, 0, NoTz), TzStrategy({"PYTZ"})>> }


(* ------------------------------------------------------------------ state *)

VARIABLES
    pc,              \* where the program is
    args,            \* the arguments the constructor was called with
    strat,           \* the strategy object the constructor returned
    frame,           \* the locals of the field loop that is running
    tz,              \* do_draw: the timezone drawn
    try_to_be_nasty, \* do_draw: the outcome of the 2-bit draw
    result,          \* do_draw: the candidate, at the end the value returned
    lo,              \* do_draw: lower end of the search interval
    hi,              \* do_draw: upper end of the search interval
    iters,           \* iterations of the bisection loop so far
    attempts,        \* earlier do_draw: attempts made so far
    data,            \* the engine's record of the draw
    outcome,         \* how the call ended
    cache,           \* lru_cache of get_leap_seconds
    probe,           \* the value under classification, and the verdict
    bounds,          \* a call of get_nasty_bounds on its own: arguments, result
    threads          \* threads calling get_leap_seconds: position, table got

vars ==
    <<pc, args, strat, frame, tz, try_to_be_nasty, result, lo, hi, iters,
      attempts, data, outcome, cache, probe, bounds, threads>>

search == <<tz, try_to_be_nasty, lo, hi, iters>>

leapvars == <<cache, probe>>

standalone == <<bounds, threads>>

NoArgs ==
    [fn |-> "none", min_value |-> Other, max_value |-> Other,
     timezones |-> NotAStrategy, allow_imaginary |-> TRUE]

NoStrategy ==
    [kind |-> "none", min_value |-> <<>>, max_value |-> <<>>,
     tz_strat |-> NotAStrategy, allow_imaginary |-> TRUE]

NoFrame ==
    [min_value |-> <<>>, max_value |-> <<>>, names |-> <<>>, i |-> 0,
     result |-> <<>>, cap_low |-> TRUE, cap_high |-> TRUE,
     forced |-> <<>>, has_fold |-> FALSE, ret |-> "none"]

EmptyCache == [filled |-> FALSE, table |-> <<>>, builds |-> 0]

\* No call of get_nasty_bounds on its own has been made.
NoBounds == [lo |-> NoValue, mid |-> NoValue, hi |-> NoValue, called |-> FALSE,
             ret |-> [raised |-> FALSE, none |-> TRUE, lo |-> NoValue, hi |-> NoValue]]

\* No thread has started.
NoThreads == <<>>

NoProbe == [value |-> NoValue, classified |-> FALSE, smear |-> FALSE, returned |-> <<>>]

Init ==
    /\ pc = "new"
    /\ args = NoArgs
    /\ strat = NoStrategy
    /\ frame = NoFrame
    /\ tz = NoTz
    /\ try_to_be_nasty = FALSE
    /\ result = NoValue
    /\ lo = NoValue
    /\ hi = NoValue
    /\ iters = 0
    /\ attempts = 0
    /\ data = NewData
    /\ outcome = "none"
    /\ cache = EmptyCache
    /\ probe = NoProbe
    /\ bounds = NoBounds
    /\ threads = NoThreads

(* ----------------------------------------------------------- constructors *)

\* check_type(typ, arg, name): InvalidArgument unless arg is a typ.
check_type(typ, arg) == arg.type = typ

\* check_valid_interval(lower, upper, ...): InvalidArgument if lower > upper.
check_valid_interval(lower, upper, names) == LE(lower.f, upper.f, names)

Strategy(kind, min_value, max_value, tz_strat, allow_imaginary) ==
    [kind |-> kind, min_value |-> min_value.f, max_value |-> max_value.f,
     tz_strat |-> tz_strat, allow_imaginary |-> allow_imaginary]

\* The constructor call returns `s`, or raises InvalidArgument when ~ok.
Constructed(a, ok, s) ==
    /\ args' = a
    /\ strat' = IF ok THEN s ELSE NoStrategy
    /\ pc' = IF ok THEN "idle" ELSE "done"
    /\ outcome' = IF ok THEN "none" ELSE "InvalidArgument"
    /\ UNCHANGED <<frame, search, result, attempts, data, leapvars, standalone>>

\* datetimes(min_value, max_value, timezones=..., allow_imaginary=...)
datetimes_accepts(min_value, max_value, timezones, allow_imaginary) ==
    /\ check_type("datetime", min_value)
    /\ check_type("datetime", max_value)
    /\ min_value.tzinfo = NoTz
    /\ max_value.tzinfo = NoTz
    /\ check_valid_interval(min_value, max_value, DATENAMES \o TIMENAMES)
    /\ timezones.strategy

datetimes ==
    /\ pc = "new"
    /\ \E in \in DatetimesInputs, allow_imaginary \in BOOLEAN :
        Constructed(
            [fn |-> "datetimes", min_value |-> in[1], max_value |-> in[2],
             timezones |-> in[3], allow_imaginary |-> allow_imaginary],
            datetimes_accepts(in[1], in[2], in[3], allow_imaginary),
            Strategy("DatetimeStrategy", in[1], in[2], in[3], allow_imaginary))

\* times(min_value, max_value, timezones=...)
times_accepts(min_value, max_value, timezones) ==
    /\ check_type("time", min_value)
    /\ check_type("time", max_value)
    /\ min_value.tzinfo = NoTz
    /\ max_value.tzinfo = NoTz
    /\ check_valid_interval(min_value, max_value, TIMENAMES)

times ==
    /\ pc = "new"
    /\ \E in \in TimesInputs :
        Constructed(
            [fn |-> "times", min_value |-> in[1], max_value |-> in[2],
             timezones |-> in[3], allow_imaginary |-> TRUE],
            times_accepts(in[1], in[2], in[3]),
            Strategy("TimeStrategy", in[1], in[2], in[3], TRUE))

\* dates(min_value, max_value)
dates_accepts(min_value, max_value) ==
    /\ check_type("date", min_value)
    /\ check_type("date", max_value)
    /\ check_valid_interval(min_value, max_value, DATENAMES)

dates ==
    /\ pc = "new"
    /\ \E in \in DatesInputs :
        Constructed(
            [fn |-> "dates", min_value |-> in[1], max_value |-> in[2],
             timezones |-> NotAStrategy, allow_imaginary |-> TRUE],
            dates_accepts(in[1], in[2]),
            Strategy(IF in[1].f = in[2].f THEN "just" ELSE "DateStrategy",
                     in[1], in[2], NotAStrategy, TRUE))

\* timedeltas(min_value, max_value)
timedeltas_accepts(min_value, max_value) ==
    /\ check_type("timedelta", min_value)
    /\ check_type("timedelta", max_value)
    /\ check_valid_interval(min_value, max_value, TIMEDELTANAMES)

timedeltas ==
    /\ pc = "new"
    /\ \E in \in TimedeltasInputs :
        Constructed(
            [fn |-> "timedeltas", min_value |-> in[1], max_value |-> in[2],
             timezones |-> NotAStrategy, allow_imaginary |-> TRUE],
            timedeltas_accepts(in[1], in[2]),
            Strategy(IF in[1].f = in[2].f THEN "just" ELSE "TimedeltaStrategy",
                     in[1], in[2], NotAStrategy, TRUE))

\* DatetimeStrategy(min_value, max_value, timezones_strat) of the earlier
\* module, built with arguments that meet its assertions.
LegacyDatetimeStrategy ==
    /\ pc = "new"
    /\ \E in \in LegacyInputs :
        Constructed(
            [fn |-> "LegacyDatetimeStrategy", min_value |-> in[1],
             max_value |-> in[2], timezones |-> in[3], allow_imaginary |-> TRUE],
            TRUE,
            Strategy("LegacyDatetimeStrategy", in[1], in[2], in[3], TRUE))


(* ------------------------------------------------ draw_capped_multipart *)

\* The locals of draw_capped_multipart(data, min_value, max_value, forced)
\* on entry; `ret` is where its caller goes on.
Call(min_value, max_value, names, forced, has_fold, ret) ==
    [min_value |-> min_value, max_value |-> max_value, names |-> names,
     i |-> 1, result |-> <<>>, cap_low |-> TRUE, cap_high |-> TRUE,
     forced |-> forced, has_fold |-> has_fold, ret |-> ret]

\* As EffectiveLow, with the lower cap never applied.
EffectiveLow_Uncapped(fr, name) == DatetimeMin[name]

\* low = getattr(min_value if cap_low else dt.datetime.min, name)
EffectiveLow(fr, name) ==
    IF fr.cap_low THEN fr.min_value[name] ELSE DatetimeMin[name]

\* As EffectiveHigh, without the length of the month.
EffectiveHigh_NoMonthrange(fr, name) ==
    IF fr.cap_high THEN fr.max_value[name] ELSE DatetimeMax[name]

\* high = getattr(max_value if cap_high else dt.datetime.max, name), and
\* for the day of an uncapped draw the length of the month drawn.
EffectiveHigh(fr, name) ==
    IF name = "day" /\ ~fr.cap_high
    THEN monthrange(fr.result.year, fr.result.month)
    ELSE IF fr.cap_high THEN fr.max_value[name] ELSE DatetimeMax[name]

\* forced.get(name)
ForcedOf(fr, name) ==
    IF fr.forced = <<>> THEN NoForced ELSE [given |-> TRUE, v |-> fr.forced[name]]

\* The locals after the draw of one field gave val.
Drawn(fr, name, val, low, high) ==
    [fr EXCEPT !.result = @ @@ (name :> val),
               !.i = @ + 1,
               !.cap_low = @ /\ val = low,
               !.cap_high = @ /\ val = high]

\* As AfterFields, without the fold draw.
AfterFields_NoFold(fr) ==
    IF fr.i < Len(fr.names) THEN "field" ELSE fr.ret

\* After the last field: the fold draw if the kind has one, else return.
AfterFields(fr) ==
    IF fr.i < Len(fr.names) THEN "field"
    ELSE IF fr.has_fold THEN "fold" ELSE fr.ret

\* One turn of the loop over the names of the kind.
DrawField ==
    /\ pc = "field"
    /\ LET name == frame.names[frame.i]
           low == EffectiveLow(frame, name)
           high == EffectiveHigh(frame, name)
           center == IF name = "year" THEN Center(2000) ELSE NoCenter
           forced == ForcedOf(frame, name)
       IN  \E val \in integer_range(low, high, center, forced) :
               /\ frame' = Drawn(frame, name, val, low, high)
               /\ data' = NoteInt(data, "field", low, high, forced)
               /\ pc' = AfterFields(frame)
    /\ UNCHANGED <<args, strat, search, result, attempts, outcome, leapvars, standalone>>

\* result["fold"] = utils.integer_range(data, 0, 1), and return.
DrawFold ==
    /\ pc = "fold"
    /\ \E val \in integer_range(0, 1, NoCenter, NoForced) :
           frame' = [frame EXCEPT !.result = @ @@ ("fold" :> val)]
    /\ data' = NoteInt(data, "fold", 0, 1, NoForced)
    /\ pc' = frame.ret
    /\ UNCHANGED <<args, strat, search, result, attempts, outcome, leapvars, standalone>>

\* The call ends: with a value returned, as an invalid draw, or raising.
Ends(how, value) ==
    /\ pc' = "done"
    /\ outcome' = how
    /\ result' = value

(* ------------------------------------------------------------------ just *)

\* just(min_value).do_draw: the value, with no draw.
JustDoDraw ==
    /\ pc = "idle"
    /\ strat.kind = "just"
    /\ Ends("returned", [f |-> strat.min_value, tzinfo |-> NoTz])
    /\ UNCHANGED <<args, strat, frame, search, attempts, data, leapvars, standalone>>

(* ---------------------------------------------------------- DateStrategy *)

DateDoDraw ==
    /\ pc = "idle"
    /\ strat.kind = "DateStrategy"
    /\ frame' = Call(strat.min_value, strat.max_value, DATENAMES, <<>>, FALSE, "date")
    /\ data' = [data EXCEPT !.calls = @ + 1]
    /\ pc' = "field"
    /\ UNCHANGED <<args, strat, search, result, attempts, outcome, leapvars, standalone>>

\* dt.date(**result)
DateReturn ==
    /\ pc = "date"
    /\ Ends(IF ValidDate(frame.result) THEN "returned" ELSE "ValueError",
            [f |-> frame.result, tzinfo |-> NoTz])
    /\ UNCHANGED <<args, strat, frame, search, attempts, data, leapvars, standalone>>

(* ---------------------------------------------------------- TimeStrategy *)

TimeDoDraw ==
    /\ pc = "idle"
    /\ strat.kind = "TimeStrategy"
    /\ frame' = Call(strat.min_value, strat.max_value, TIMENAMES, <<>>, TRUE, "time")
    /\ data' = [data EXCEPT !.calls = @ + 1]
    /\ pc' = "field"
    /\ UNCHANGED <<args, strat, search, result, attempts, outcome, leapvars, standalone>>

\* tz = data.draw(self.tz_strat); return dt.time(**result, tzinfo=tz).
\* Drawing from what is no strategy raises.
TimeReturn ==
    /\ pc = "time"
    /\ IF strat.tz_strat.strategy
       THEN \E z \in strat.tz_strat.tzs :
                /\ tz' = z
                /\ data' = NoteDraw(data, "tz", strat.tz_strat.tzs)
                /\ Ends("returned", [f |-> frame.result, tzinfo |-> z])
       ELSE /\ tz' = tz
            /\ data' = data
            /\ Ends("NotAStrategy", NoValue)
    /\ UNCHANGED <<args, strat, frame, try_to_be_nasty, lo, hi, iters, attempts, leapvars, standalone>>

(* ----------------------------------------------------- TimedeltaStrategy *)

TimedeltaDoDraw ==
    /\ pc = "idle"
    /\ strat.kind = "TimedeltaStrategy"
    /\ frame' = Call(strat.min_value, strat.max_value, TIMEDELTANAMES, <<>>, FALSE,
                     "timedelta")
    /\ pc' = "td_field"
    /\ UNCHANGED <<args, strat, search, result, attempts, data, outcome, leapvars, standalone>>

TimedeltaLow(fr, name) ==
    IF fr.cap_low THEN fr.min_value[name] ELSE TimedeltaMin[name]

TimedeltaHigh(fr, name) ==
    IF fr.cap_high THEN fr.max_value[name] ELSE TimedeltaMax[name]

\* One turn of the loop over days, seconds, microseconds.
TimedeltaField ==
    /\ pc = "td_field"
    /\ LET name == frame.names[frame.i]
           low == TimedeltaLow(frame, name)
           high == TimedeltaHigh(frame, name)
       IN  \E val \in integer_range(low, high, Center(0), NoForced) :
               /\ frame' = Drawn(frame, name, val, low, high)
               /\ data' = NoteInt(data, "field", low, high, NoForced)
               /\ pc' = IF frame.i < Len(frame.names) THEN "td_field" ELSE "timedelta"
    /\ UNCHANGED <<args, strat, search, result, attempts, outcome, leapvars, standalone>>

\* dt.timedelta(**result)
TimedeltaReturn ==
    /\ pc = "timedelta"
    /\ Ends("returned",
            [f |-> TdNorm(frame.result.days, frame.result.seconds,
                          frame.result.microseconds),
             tzinfo |-> NoTz])
    /\ UNCHANGED <<args, strat, frame, search, attempts, data, leapvars, standalone>>


(* ------------------------------------------------------ DatetimeStrategy *)

ALLNAMES == DATENAMES \o TIMENAMES

\* The try block of draw_naive_datetime_and_combine:
\* replace_tzinfo(dt.datetime(**result), timezone=tz), [ok, v]; ok is false
\* on ValueError or OverflowError.
Combine(f, timezone) ==
    IF ~ValidDate(f) THEN [ok |-> FALSE, v |-> NoValue]
    ELSE replace_tzinfo(f, timezone)

\* The except block: note_event(...), mark_invalid().
CombineFails ==
    /\ data' = [note_event(data) EXCEPT !.failures = @ + 1]
    /\ Ends("invalid", NoValue)

\* tz = data.draw(self.tz_strat); a null timezone goes to the plain draw.
DatetimeDoDraw ==
    /\ pc = "idle"
    /\ strat.kind = "DatetimeStrategy"
    /\ \E z \in strat.tz_strat.tzs :
           /\ tz' = z
           /\ IF z = NoTz
              THEN /\ frame' = Call(strat.min_value, strat.max_value, ALLNAMES,
                                    <<>>, TRUE, "naive")
                   /\ data' = [NoteDraw(data, "tz", strat.tz_strat.tzs)
                                   EXCEPT !.calls = @ + 1]
                   /\ pc' = "field"
              ELSE /\ frame' = frame
                   /\ data' = NoteDraw(data, "tz", strat.tz_strat.tzs)
                   /\ pc' = "bits"
    /\ UNCHANGED <<args, strat, try_to_be_nasty, lo, hi, iters, result, attempts,
                   outcome, leapvars, standalone>>

\* return self.draw_naive_datetime_and_combine(data, tz, min_value, max_value)
NaiveReturn ==
    /\ pc = "naive"
    /\ LET c == Combine(frame.result, tz)
       IN  IF c.ok
           THEN data' = data /\ Ends("returned", c.v)
           ELSE CombineFails
    /\ UNCHANGED <<args, strat, frame, search, attempts, leapvars, standalone>>

\* data.draw_bits(2) == 1
TryToBeNasty(bits) == bits = 1

\* try_to_be_nasty = data.draw_bits(2) == 1, then the first group is opened
\* and the first candidate is drawn between the bounds.
DrawBits ==
    /\ pc = "bits"
    /\ \E b \in 0..3 : try_to_be_nasty' = TryToBeNasty(b)
    /\ data' = [start_example(NoteDraw(data, "bits", 0..3)) EXCEPT !.calls = @ + 1]
    /\ frame' = Call(strat.min_value, strat.max_value, ALLNAMES, <<>>, TRUE, "first")
    /\ pc' = "field"
    /\ UNCHANGED <<args, strat, tz, lo, hi, iters, result, attempts, outcome, leapvars, standalone>>

\* As AcceptsFirst, without the test for a candidate nasty by luck.
AcceptsFirst_NoLuck(try, nasty, nb) == (~try) \/ nb.none

\* The candidate is accepted: not asked to be nasty, nasty by luck, or no
\* interval to search.
AcceptsFirst(try, nasty, nb) == (~try) \/ nasty.val \/ nb.none

\* The first candidate is combined with its timezone, and either accepted
\* or discarded for the search.
FirstCandidate ==
    /\ pc = "first"
    /\ LET c == Combine(frame.result, tz)
           nb == get_nasty_bounds(AsAware(strat.min_value, tz), c.v,
                                  AsAware(strat.max_value, tz))
           nasty == IF try_to_be_nasty THEN datetime_is_nasty(c.v) ELSE Ret(FALSE)
           reads == \/ BoundsReadTable(AsAware(strat.min_value, tz), c.v,
                                       AsAware(strat.max_value, tz))
                    \/ ~nb.raised /\ try_to_be_nasty /\ NastyReadsTable(c.v)
       IN  /\ cache' = IF c.ok /\ reads THEN lru_cache(cache) ELSE cache
           /\ IF ~c.ok
              THEN CombineFails /\ UNCHANGED <<frame, lo, hi>>
              ELSE IF nb.raised \/ nasty.raised
              THEN /\ Ends("OverflowError", NoValue)
                   /\ UNCHANGED <<frame, lo, hi, data>>
              ELSE IF AcceptsFirst(try_to_be_nasty, nasty, nb)
              THEN /\ data' = stop_example(data, FALSE)
                   /\ result' = c.v
                   /\ lo' = nb.lo
                   /\ hi' = nb.hi
                   /\ pc' = "check"
                   /\ UNCHANGED <<frame, outcome>>
              ELSE /\ data' = [start_example(stop_example(data, TRUE))
                                   EXCEPT !.calls = @ + 1]
                   /\ result' = c.v
                   /\ lo' = nb.lo
                   /\ hi' = nb.hi
                   /\ frame' = Call(nb.lo.f, nb.hi.f, ALLNAMES, <<>>, TRUE, "bisect")
                   /\ pc' = "field"
                   /\ UNCHANGED outcome
    /\ UNCHANGED <<args, strat, tz, try_to_be_nasty, iters, attempts, probe, standalone>>

\* As ForcedFields, with the microsecond dropped.
ForcedFields_NoMicrosecond(v) ==
    [n \in {ALLNAMES[i] : i \in DOMAIN ALLNAMES} |->
        IF n = "microsecond" THEN 0 ELSE v.f[n]]

\* forced={k: getattr(result, k) for k in DATENAMES + TIMENAMES}
ForcedFields(v) == [n \in {ALLNAMES[i] : i \in DOMAIN ALLNAMES} |-> v.f[n]]

\* One turn of the search: the candidate drawn in [lo, hi] is combined, its
\* group discarded, the interval narrowed around it; a nasty candidate ends
\* the search and is replayed between the bounds of the strategy.
BisectCandidate ==
    /\ pc = "bisect"
    /\ LET c == Combine(frame.result, tz)
           nb == get_nasty_bounds(lo, c.v, hi)
           nasty == datetime_is_nasty(c.v)
           closed == stop_example(data, TRUE)
           reads == \/ BoundsReadTable(lo, c.v, hi)
                    \/ ~nb.raised /\ ~nb.none /\ NastyReadsTable(c.v)
       IN  /\ cache' = IF c.ok /\ reads THEN lru_cache(cache) ELSE cache
           /\ IF ~c.ok
              THEN CombineFails /\ UNCHANGED <<frame, lo, hi, iters>>
              ELSE IF nb.raised
              THEN /\ Ends("OverflowError", c.v)
                   /\ data' = closed
                   /\ UNCHANGED <<frame, lo, hi, iters>>
              ELSE IF nb.none
              THEN /\ Ends("TypeError", c.v)
                   /\ data' = closed
                   /\ lo' = nb.lo
                   /\ hi' = nb.hi
                   /\ UNCHANGED <<frame, iters>>
              ELSE IF ~LE(nb.lo.f, nb.hi.f, ALLNAMES)
              THEN /\ Ends("AssertionError", c.v)
                   /\ data' = closed
                   /\ lo' = nb.lo
                   /\ hi' = nb.hi
                   /\ UNCHANGED <<frame, iters>>
              ELSE IF nasty.raised
              THEN /\ Ends("OverflowError", c.v)
                   /\ data' = closed
                   /\ lo' = nb.lo
                   /\ hi' = nb.hi
                   /\ UNCHANGED <<frame, iters>>
              ELSE /\ result' = c.v
                   /\ lo' = nb.lo
                   /\ hi' = nb.hi
                   /\ iters' = iters + 1
                   /\ UNCHANGED outcome
                   /\ IF nasty.val
                      THEN /\ data' = [start_example(closed) EXCEPT !.calls = @ + 1]
                           /\ frame' = Call(strat.min_value, strat.max_value, ALLNAMES,
                                            ForcedFields(c.v), TRUE, "replay")
                           /\ pc' = "field"
                      ELSE IF iters + 1 < MaxBisect
                      THEN /\ data' = [start_example(closed) EXCEPT !.calls = @ + 1]
                           /\ frame' = Call(nb.lo.f, nb.hi.f, ALLNAMES, <<>>, TRUE,
                                            "bisect")
                           /\ pc' = "field"
                      ELSE /\ data' = closed
                           /\ frame' = frame
                           /\ pc' = "cutoff"
    /\ UNCHANGED <<args, strat, tz, try_to_be_nasty, attempts, probe, standalone>>

\* The replay of the nasty candidate is combined and its group closed.
ReplayReturn ==
    /\ pc = "replay"
    /\ LET c == Combine(frame.result, tz)
       IN  IF ~c.ok
           THEN CombineFails
           ELSE /\ data' = stop_example(data, FALSE)
                /\ result' = c.v
                /\ pc' = "check"
                /\ UNCHANGED outcome
    /\ UNCHANGED <<args, strat, frame, search, attempts, leapvars, standalone>>

\* As Rejects, with the flag read the wrong way round.
Rejects_Inverted(allow_imaginary, value) ==
    allow_imaginary /\ datetime_does_not_exist(value)

\* (not self.allow_imaginary) and datetime_does_not_exist(result)
Rejects(allow_imaginary, value) ==
    (~allow_imaginary) /\ datetime_does_not_exist(value)

\* If we happened to end up with a disallowed imaginary time, reject it.
ImaginaryCheck ==
    /\ pc = "check"
    /\ IF Rejects(strat.allow_imaginary, result)
       THEN Ends("invalid", result)
       ELSE Ends("returned", result)
    /\ UNCHANGED <<args, strat, frame, search, attempts, data, leapvars, standalone>>


(* ------------------------------------- the earlier DatetimeStrategy *)

\* for _ in range(3)
Attempts == 3

LegacyDoDraw ==
    /\ pc = "idle"
    /\ strat.kind = "LegacyDatetimeStrategy"
    /\ frame' = Call(strat.min_value, strat.max_value, ALLNAMES, <<>>, FALSE, "build")
    /\ attempts' = 1
    /\ pc' = "lg_field"
    /\ UNCHANGED <<args, strat, search, result, data, outcome, leapvars, standalone>>

LegacyLow(fr, name) ==
    IF fr.cap_low THEN fr.min_value[name] ELSE DatetimeMin[name]

LegacyHigh(fr, name) ==
    IF fr.cap_high THEN fr.max_value[name] ELSE DatetimeMax[name]

\* One turn of the field loop of _attempt_one_draw.
LegacyField ==
    /\ pc = "lg_field"
    /\ LET name == frame.names[frame.i]
           low == LegacyLow(frame, name)
           high == LegacyHigh(frame, name)
           center == IF name = "year" THEN Center(2000) ELSE NoCenter
       IN  \E val \in integer_range(low, high, center, NoForced) :
               /\ frame' = Drawn(frame, name, val, low, high)
               /\ data' = NoteInt(data, "field", low, high, NoForced)
               /\ pc' = IF frame.i < Len(frame.names) THEN "lg_field" ELSE "build"
    /\ UNCHANGED <<args, strat, search, result, attempts, outcome, leapvars, standalone>>

\* The try block of _attempt_one_draw: [ok, v]; ok is false when it
\* returns None.
LegacyCombine(f, timezone) ==
    IF ~ValidDate(f) THEN [ok |-> FALSE, v |-> NoValue]
    ELSE IF is_pytz_timezone(timezone)
    THEN [ok |-> ~LocalizeOverflows(f), v |-> [f |-> f, tzinfo |-> timezone]]
    ELSE [ok |-> TRUE, v |-> [f |-> f, tzinfo |-> timezone]]

\* As TriesAgain, with one attempt more.
TriesAgain_OneMore(made) == made <= Attempts

\* Whether do_draw makes another attempt after `made` failed ones.
TriesAgain(made) == made < Attempts

\* The end of _attempt_one_draw and the loop of do_draw around it: the
\* timezone is drawn and the value built; a failed attempt is followed by
\* the next one, the last by an event and the invalid-draw signal.
LegacyBuild ==
    /\ pc = "build"
    /\ \E z \in strat.tz_strat.tzs :
           LET c == LegacyCombine(frame.result, z)
               drawn == NoteDraw(data, "tz", strat.tz_strat.tzs)
           IN  /\ tz' = z
               /\ IF c.ok
                  THEN /\ data' = drawn
                       /\ Ends("returned", c.v)
                       /\ UNCHANGED <<frame, attempts>>
                  ELSE IF TriesAgain(attempts)
                  THEN /\ data' = [drawn EXCEPT !.failures = @ + 1]
                       /\ attempts' = attempts + 1
                       /\ frame' = Call(strat.min_value, strat.max_value, ALLNAMES,
                                        <<>>, FALSE, "build")
                       /\ pc' = "lg_field"
                       /\ UNCHANGED <<result, outcome>>
                  ELSE /\ data' = [note_event(drawn) EXCEPT !.failures = @ + 1]
                       /\ Ends("invalid", NoValue)
                       /\ UNCHANGED <<frame, attempts>>
    /\ UNCHANGED <<args, strat, try_to_be_nasty, lo, hi, iters, leapvars, standalone>>

(* ---------------------------------------------------------- specification *)

Next ==
    \/ datetimes
    \/ times
    \/ dates
    \/ timedeltas
    \/ LegacyDatetimeStrategy
    \/ JustDoDraw
    \/ DateDoDraw
    \/ DateReturn
    \/ TimeDoDraw
    \/ TimeReturn
    \/ TimedeltaDoDraw
    \/ TimedeltaField
    \/ TimedeltaReturn
    \/ DatetimeDoDraw
    \/ NaiveReturn
    \/ DrawBits
    \/ FirstCandidate
    \/ BisectCandidate
    \/ ReplayReturn
    \/ ImaginaryCheck
    \/ DrawField
    \/ DrawFold
    \/ LegacyDoDraw
    \/ LegacyField
    \/ LegacyBuild

Spec == Init /\ [][Next]_vars


(* ------------------------------------ the leap-second table in use *)

Aware(y, m, d, h, mi, s, us, fold, tzinfo) ==
    [f |-> [year |-> y, month |-> m, day |-> d, hour |-> h, minute |-> mi,
            second |-> s, microsecond |-> us, fold |-> fold],
     tzinfo |-> tzinfo]

ProbeYears == {1971, 1972, 1997, 1998, 2000, 2005, 2016, 2017}

\* Aware datetimes on and next to the days that can hold a leap second.
ProbeValues ==
    { Aware(y, md[1], md[2], h, 59, 59, 0, 0, z) :
        y \in ProbeYears,
        md \in {<<6, 30>>, <<7, 1>>, <<12, 31>>, <<1, 1>>},
        h \in {0, 11, 12, 23},
        z \in {"UTC", "PLUS1"} }

\* A value is taken up for classification.
ChooseProbe ==
    /\ pc = "new"
    /\ \E v \in ProbeValues : probe' = [probe EXCEPT !.value = v]
    /\ pc' = "probe"
    /\ UNCHANGED <<args, strat, frame, search, result, attempts, data, outcome, cache, standalone>>

\* get_leap_seconds(): the cached table, or the body run and its asserts.
CallGetLeapSeconds ==
    /\ pc = "probe"
    /\ Len(probe.returned) < MaxCalls
    /\ IF ~cache.filled /\ ~TableAssertsHold(leapsecs)
       THEN /\ outcome' = "AssertionError"
            /\ pc' = "done"
            /\ UNCHANGED <<cache, probe>>
       ELSE /\ cache' = lru_cache(cache)
            /\ probe' = [probe EXCEPT !.returned = Append(@, lru_cache(cache).table)]
            /\ UNCHANGED <<pc, outcome>>
    /\ UNCHANGED <<args, strat, frame, search, result, attempts, data, standalone>>

\* datetime_in_leap_smear(value), which gets the table by a call of its own.
Classify ==
    /\ pc = "probe"
    /\ ~probe.classified
    /\ cache' = lru_cache(cache)
    /\ probe' = [probe EXCEPT !.classified = TRUE,
                              !.smear = datetime_in_leap_smear(probe.value)]
    /\ UNCHANGED <<pc, args, strat, frame, search, result, attempts, data, outcome, standalone>>

LeapNext ==
    \/ ChooseProbe
    \/ CallGetLeapSeconds
    \/ Classify

LeapSpec == Init /\ [][LeapNext]_vars


(* -------------------------------------------- get_nasty_bounds on its own *)

\* Times in one timezone each: around 2000-01-01 and the leap seconds of
\* 1998 and 2005, on and next to the edges of the smear of 2016, around the
\* two changes of the rule zone, and at both ends of the range.
BoundsPoints ==
    [UTC |-> << Aware(1998, 6, 1, 0, 0, 0, 0, 0, "UTC"),
                Aware(1999, 12, 31, 23, 59, 59, 999999, 0, "UTC"),
                Aware(2000, 1, 1, 0, 0, 0, 0, 0, "UTC"),
                Aware(2000, 1, 1, 0, 0, 0, 1, 0, "UTC"),
                Aware(2006, 6, 1, 0, 0, 0, 0, 0, "UTC"),
                Aware(2016, 12, 31, 11, 59, 58, 0, 0, "UTC"),
                Aware(2016, 12, 31, 11, 59, 59, 0, 0, "UTC"),
                Aware(2016, 12, 31, 23, 59, 59, 0, 0, "UTC"),
                Aware(2017, 1, 1, 11, 59, 59, 0, 0, "UTC"),
                Aware(2017, 1, 1, 12, 0, 0, 0, 0, "UTC") >>,
     DSTZONE |-> << Aware(1999, 6, 1, 0, 0, 0, 0, 0, "DSTZONE"),
                    Aware(1999, 12, 1, 0, 0, 0, 0, 0, "DSTZONE"),
                    Aware(2000, 1, 1, 0, 0, 0, 0, 0, "DSTZONE"),
                    Aware(2000, 6, 1, 0, 0, 0, 0, 0, "DSTZONE"),
                    Aware(2001, 3, 25, 1, 30, 0, 0, 0, "DSTZONE"),
                    Aware(2001, 3, 25, 2, 30, 0, 0, 0, "DSTZONE"),
                    Aware(2001, 3, 25, 3, 30, 0, 0, 0, "DSTZONE"),
                    Aware(2001, 10, 28, 2, 30, 0, 0, 0, "DSTZONE"),
                    Aware(2001, 10, 28, 2, 30, 0, 0, 1, "DSTZONE") >>,
     PLUS1 |-> << Aware(1, 1, 1, 0, 0, 0, 0, 0, "PLUS1"),
                  Aware(1, 1, 1, 1, 0, 0, 0, 0, "PLUS1"),
                  Aware(1998, 6, 1, 0, 0, 0, 0, 0, "PLUS1"),
                  Aware(2006, 6, 1, 0, 0, 0, 0, 0, "PLUS1"),
                  Aware(9999, 12, 31, 23, 59, 59, 0, 0, "PLUS1") >>]

\* lo <= mid <= hi, taken from the points of one timezone.
ChooseBounds ==
    /\ pc = "new"
    /\ \E z \in DOMAIN BoundsPoints :
        \E i, j, k \in DOMAIN BoundsPoints[z] :
            /\ i <= j
            /\ j <= k
            /\ bounds' = [bounds EXCEPT !.lo = BoundsPoints[z][i],
                                        !.mid = BoundsPoints[z][j],
                                        !.hi = BoundsPoints[z][k]]
    /\ pc' = "bounds"
    /\ UNCHANGED <<args, strat, frame, search, result, attempts, data, outcome,
                   leapvars, threads>>

\* get_nasty_bounds(lo, mid, hi) returns, or raises OverflowError.
CallGetNastyBounds ==
    /\ pc = "bounds"
    /\ LET ret == get_nasty_bounds(bounds.lo, bounds.mid, bounds.hi)
       IN  /\ bounds' = [bounds EXCEPT !.called = TRUE, !.ret = ret]
           /\ outcome' = IF ret.raised THEN "OverflowError" ELSE "returned"
    /\ cache' = IF BoundsReadTable(bounds.lo, bounds.mid, bounds.hi)
                THEN lru_cache(cache) ELSE cache
    /\ pc' = "done"
    /\ UNCHANGED <<args, strat, frame, search, result, attempts, data, probe, threads>>

BoundsNext ==
    \/ ChooseBounds
    \/ CallGetNastyBounds

BoundsSpec == Init /\ [][BoundsNext]_vars


(* --------------------------------- get_leap_seconds called from threads *)

\* A thread between calls: nothing built, nothing received yet.
IdleThread == [pc |-> "idle", built |-> <<>>, returned |-> <<>>]

\* The threads come to exist, none of them inside a call.
StartThreads ==
    /\ pc = "new"
    /\ threads' = [t \in 1..NThreads |-> IdleThread]
    /\ pc' = "threads"
    /\ UNCHANGED <<args, strat, frame, search, result, attempts, data, outcome,
                   leapvars, bounds>>

\* Thread t calls get_leap_seconds(): the wrapper looks the call up in its
\* cache; a hit returns the cached table, a miss goes on to the body.
Lookup(t) ==
    /\ pc = "threads"
    /\ threads[t].pc = "idle"
    /\ Len(threads[t].returned) < MaxCalls
    /\ threads' = [threads EXCEPT ![t] =
                       IF cache.filled
                       THEN [@ EXCEPT !.returned = Append(@, cache.table)]
                       ELSE [@ EXCEPT !.pc = "miss"]]
    /\ UNCHANGED <<pc, args, strat, frame, search, result, attempts, data, outcome,
                   leapvars, bounds>>

\* Thread t, after a miss, runs the body of get_leap_seconds: the table is
\* built; other threads may run meanwhile.
Body(t) ==
    /\ pc = "threads"
    /\ threads[t].pc = "miss"
    /\ TableAssertsHold(leapsecs)
    /\ threads' = [threads EXCEPT ![t] = [@ EXCEPT !.pc = "built", !.built = leapsecs]]
    /\ cache' = [cache EXCEPT !.builds = @ + 1]
    /\ UNCHANGED <<pc, args, strat, frame, search, result, attempts, data, outcome,
                   probe, bounds>>

\* Thread t is back in the wrapper: the table it built is cached unless
\* another thread's is there already, and returned to the caller.
Store(t) ==
    /\ pc = "threads"
    /\ threads[t].pc = "built"
    /\ cache' = IF cache.filled THEN cache
                ELSE [cache EXCEPT !.filled = TRUE, !.table = threads[t].built]
    /\ threads' = [threads EXCEPT ![t] =
                       [@ EXCEPT !.pc = "idle", !.built = <<>>,
                                 !.returned = Append(@, threads[t].built)]]
    /\ UNCHANGED <<pc, args, strat, frame, search, result, attempts, data, outcome,
                   probe, bounds>>

ThreadsNext ==
    \/ StartThreads
    \/ \E t \in DOMAIN threads : Lookup(t)
    \/ \E t \in DOMAIN threads : Body(t)
    \/ \E t \in DOMAIN threads : Store(t)

ThreadsSpec == Init /\ [][ThreadsNext]_vars


(* ================================================================ claims *)

\* min <= v <= max on the fields `names`.
Within(v, min_value, max_value, names) ==
    LE(min_value, v, names) /\ LE(v, max_value, names)

\* The places where draw_capped_multipart has returned to its caller.
CappedReturns == {"date", "time", "naive", "first", "bisect", "replay"}

NewKinds == {"just", "DateStrategy", "TimeStrategy", "DatetimeStrategy", "TimedeltaStrategy"}

(* C1: whatever in-range values the engine answers with, the fields an      *)
(* unforced draw_capped_multipart returns, and the days, seconds and        *)
(* microseconds TimedeltaStrategy.do_draw draws, lie between the bounds     *)
(* they were drawn for, and so does every value a strategy then returns.    *)
C1_BoundsHonoured ==
    /\ (pc \in CappedReturns /\ frame.forced = <<>>)
           => Within(frame.result, frame.min_value, frame.max_value, frame.names)
    /\ pc = "timedelta"
           => Within(frame.result, frame.min_value, frame.max_value, frame.names)
    /\ (outcome = "returned" /\ strat.kind \in NewKinds)
           => Within(result.f, strat.min_value, strat.max_value,
                     CASE args.fn = "dates" -> DATENAMES
                       [] args.fn = "times" -> TIMENAMES
                       [] args.fn = "timedeltas" -> TIMEDELTANAMES
                       [] OTHER -> ALLNAMES)

\* A draw has returned fields strictly inside its bounds, with both caps
\* released on the way.
C1_Witness ==
    /\ pc = "naive"
    /\ ~frame.cap_low
    /\ ~frame.cap_high
    /\ Cmp(frame.min_value, frame.result, ALLNAMES) < 0
    /\ Cmp(frame.result, frame.max_value, ALLNAMES) < 0

(* C2: the fields an unforced draw_capped_multipart returns for date or    *)
(* datetime bounds name a day of the calendar, whatever the caps were at    *)
(* the day field, and building the naive value from them never fails.       *)
C2_CalendarValid ==
    /\ (pc \in {"date", "naive", "first", "bisect"} /\ frame.forced = <<>>)
           => ValidDate(frame.result)
    /\ (strat.kind \in {"DateStrategy", "DatetimeStrategy"} /\ tz = NoTz)
           => (outcome \notin {"ValueError", "invalid"} /\ data.failures = 0)

\* The day of a February was drawn with the upper cap released.
C2_Witness ==
    /\ pc = "date"
    /\ ~frame.cap_high
    /\ frame.result.month = 2
    /\ frame.result.day = monthrange(frame.result.year, 2)

\* The bounds of the strategy are equal.
Degenerate ==
    /\ args.fn \in {"dates", "times", "datetimes", "timedeltas"}
    /\ strat.kind # "none"
    /\ strat.min_value = strat.max_value

SameFields(a, b, names) == \A i \in DOMAIN names : a[names[i]] = b[names[i]]

NamesOf(fn) ==
    CASE fn = "dates" -> DATENAMES
      [] fn = "times" -> TIMENAMES
      [] fn = "timedeltas" -> TIMEDELTANAMES
      [] OTHER -> ALLNAMES

(* C3 as stated: with min == max each of the four strategies always        *)
(* returns exactly that value, and the engine is never given a choice (no   *)
(* fold draw, no 2-bit draw, no timezone draw).                             *)
C3_Original ==
    Degenerate =>
        /\ data.free = {}
        /\ data.made \cap {"fold", "bits", "tz"} = {}
        /\ pc = "done" => (/\ outcome = "returned"
                           /\ SameFields(result.f, strat.min_value, NamesOf(args.fn))
                           /\ result.tzinfo = NoTz)

(* C3 amended: with min == max, dates and timedeltas return just(min),      *)
(* which returns that value and makes no draw at all; times and datetimes   *)
(* build their ordinary strategy, whose field draws all have low == high,   *)
(* so the fields of every value it returns are those of the bound and no    *)
(* search is made, but which still makes the 0/1 fold draw and the          *)
(* timezone draw and, for a non-null timezone, the 2-bit draw.              *)
C3_DegenerateBounds ==
    Degenerate =>
        /\ "field" \notin data.free
        /\ data.calls <= 1
        /\ iters = 0
        /\ args.fn \in {"dates", "timedeltas"}
               => (strat.kind = "just" /\ data.made = {}
                   /\ (pc = "done" => outcome = "returned"))
        /\ outcome = "returned"
               => SameFields(result.f, strat.min_value, NamesOf(args.fn))
        /\ (pc = "done" /\ args.fn \in {"times", "datetimes"})
               => ("fold" \in data.free /\ "tz" \in data.made)
        /\ (pc = "done" /\ args.fn = "datetimes" /\ tz # NoTz)
               => "bits" \in data.free

\* A times strategy with equal bounds has returned, after a fold draw the
\* engine could choose and a timezone draw.
C3_Witness ==
    /\ Degenerate
    /\ strat.kind = "TimeStrategy"
    /\ outcome = "returned"
    /\ "fold" \in data.free
    /\ "tz" \in data.made

(* C4: with allow_imaginary false and a timezone, do_draw never returns a   *)
(* value that datetime_does_not_exist reports: by every path such a value   *)
(* ends in the invalid-draw signal.                                         *)
C4_NoImaginaryReturned ==
    (/\ strat.kind = "DatetimeStrategy"
     /\ ~strat.allow_imaginary
     /\ tz # NoTz
     /\ outcome = "returned")
        => ~datetime_does_not_exist(result)

\* A nonexistent time found by the search and replayed was rejected.
C4_Witness ==
    /\ strat.kind = "DatetimeStrategy"
    /\ ~strat.allow_imaginary
    /\ iters > 0
    /\ outcome = "invalid"
    /\ data.failures = 0
    /\ datetime_does_not_exist(result)


(* C5 as stated: the datetime strategy makes up to 3 attempts when building *)
(* the value fails; the invalid-draw signal comes only after 3 failed       *)
(* attempts, with one event, and a single failure never produces it.        *)
C5_Original ==
    (/\ strat.kind \in {"DatetimeStrategy", "LegacyDatetimeStrategy"}
     /\ outcome = "invalid"
     /\ data.failures > 0)
        => (data.failures = Attempts /\ data.events = 1)

(* C5 amended: DatetimeStrategy.draw_naive_datetime_and_combine makes no    *)
(* second attempt: the first failure to build the value records one event   *)
(* and signals the draw invalid. Only the do_draw of the earlier            *)
(* searchstrategy DatetimeStrategy attempts the whole draw up to 3 times,   *)
(* and records one event and signals the draw invalid only after the third  *)
(* failed attempt.                                                          *)
C5_RetryPolicy ==
    /\ (strat.kind = "DatetimeStrategy" /\ data.failures > 0)
           => (data.failures = 1 /\ data.events = 1 /\ outcome = "invalid")
    /\ strat.kind = "LegacyDatetimeStrategy"
           => /\ attempts <= Attempts
              /\ data.failures <= Attempts
              /\ outcome = "invalid" => (data.failures = Attempts /\ data.events = 1)
              /\ data.failures < Attempts => (data.events = 0 /\ outcome # "invalid")
              /\ (pc # "done" /\ attempts > 0) => data.failures = attempts - 1

\* The earlier strategy gave up after its third failed attempt.
C5_Witness ==
    /\ strat.kind = "LegacyDatetimeStrategy"
    /\ outcome = "invalid"
    /\ attempts = Attempts
    /\ data.failures = Attempts
    /\ data.events = 1

(* C6 as stated: no overflow of a conversion at the edge of the range       *)
(* escapes DatetimeStrategy.do_draw as a raised error.                      *)
C6_NoOverflowEscapes ==
    strat.kind = "DatetimeStrategy" => outcome # "OverflowError"

\* The arguments are malformed in one of the ways the constructors are to
\* reject.
Malformed(a) ==
    LET typ == CASE a.fn = "dates" -> "date"
                 [] a.fn = "times" -> "time"
                 [] a.fn = "datetimes" -> "datetime"
                 [] OTHER -> "timedelta"
    IN  /\ a.fn \in {"dates", "times", "datetimes", "timedeltas"}
        /\ \/ a.min_value.type # typ
           \/ a.max_value.type # typ
           \/ a.min_value.tzinfo # NoTz
           \/ a.max_value.tzinfo # NoTz
           \/ ~LE(a.min_value.f, a.max_value.f, NamesOf(a.fn))
           \/ a.fn \in {"datetimes", "times"} /\ ~a.timezones.strategy

(* C7 as stated: every constructor rejects malformed input when it is       *)
(* called: no strategy object comes to exist, no draw is made, and the call *)
(* ends with InvalidArgument; this includes a timezone source that is not   *)
(* a strategy, for datetimes and for times.                                 *)
C7_RejectsMalformed ==
    (pc # "new" /\ Malformed(args))
        => (outcome = "InvalidArgument" /\ strat = NoStrategy /\ data = NewData)

June30_2000 == Aware(2000, 6, 30, 23, 59, 59, 0, 0, "UTC")

(* C8 as stated: datetime_in_leap_smear returns true for                    *)
(* 2000-06-30 23:59:59 UTC.                                                 *)
C8_Original ==
    (probe.classified /\ probe.value = June30_2000) => probe.smear

(* C8 amended: datetime_in_leap_smear returns false for                     *)
(* 2000-06-30 23:59:59 UTC, because the table has no entry in 2000 (the     *)
(* nearest are 1998-12-31 and 2005-12-31); every entry of the table is      *)
(* itself classified leap-adjacent.                                         *)
C8_June2000NotLeapAdjacent ==
    probe.classified =>
        /\ probe.value = June30_2000 => ~probe.smear
        /\ (\E i \in DOMAIN leapsecs : probe.value = leapsecs[i]) => probe.smear
        /\ \A i \in DOMAIN leapsecs : leapsecs[i].f.year # 2000

\* 2000-06-30 23:59:59 UTC has been classified.
C8_Witness ==
    /\ probe.classified
    /\ probe.value = June30_2000
    /\ cache.filled

(* C9: when the search finds a nasty candidate, the replay between the      *)
(* bounds of the strategy never forces a value outside the low..high of its *)
(* field, and its seven fields year..microsecond are those of the           *)
(* candidate, which datetime_is_nasty reported nasty; the value returned    *)
(* after a search has those fields too.                                     *)
C9_ForcedReplay ==
    /\ ~data.bad_forced
    /\ (pc \in {"field", "fold", "replay"} /\ frame.ret = "replay")
           => /\ frame.forced = ForcedFields(result)
              /\ frame.min_value = strat.min_value
              /\ frame.max_value = strat.max_value
              /\ Within(result.f, strat.min_value, strat.max_value, ALLNAMES)
              /\ ~datetime_is_nasty(result).raised
              /\ datetime_is_nasty(result).val
    /\ pc = "replay" => SameFields(frame.result, result.f, ALLNAMES)
    /\ (outcome = "returned" /\ iters > 0)
           => /\ SameFields(result.f, frame.forced, ALLNAMES)
              /\ result.tzinfo = tz

\* A draw that went through the search has returned the replayed value.
C9_Witness ==
    /\ outcome = "returned"
    /\ iters > 0
    /\ frame.ret = "replay"
    /\ SameFields(result.f, frame.forced, ALLNAMES)

\* The properties the table is to have.
WellFormedTable(table) ==
    /\ Len(table) = 27
    /\ \A i \in 1..(Len(table) - 1) : Cmp(table[i].f, table[i + 1].f, ALLNAMES) < 0
    /\ \A i \in DOMAIN table :
           /\ <<table[i].f.month, table[i].f.day>> \in {<<6, 30>>, <<12, 31>>}
           /\ table[i].f.hour = 23
           /\ table[i].f.minute = 59
           /\ table[i].f.second = 59
           /\ table[i].f.microsecond = 0
           /\ table[i].tzinfo = "UTC"

(* C10: every table get_leap_seconds returns has exactly 27 entries, is     *)
(* strictly ascending, has only entries at 23:59:59 UTC on a June 30 or a   *)
(* December 31, and every call returns the same sequence.                   *)
C10_LeapTable ==
    /\ \A i \in DOMAIN probe.returned :
           /\ WellFormedTable(probe.returned[i])
           /\ probe.returned[i] = probe.returned[1]
    /\ cache.filled => WellFormedTable(cache.table)
    /\ outcome # "AssertionError"

\* get_leap_seconds has been called at least twice.
C10_Witness ==
    /\ Len(probe.returned) >= 2
    /\ cache.filled


(* C11 as stated: when get_nasty_bounds returns (None, None) inside the     *)
(* search loop, the draw accepts the last candidate and completes; it does  *)
(* not fail on the sentinel.                                                *)
C11_SentinelFallback ==
    (strat.kind = "DatetimeStrategy" /\ pc = "done" /\ lo = NoValue /\ hi = NoValue
        /\ data.calls > 1)
        => outcome \in {"returned", "invalid"}


\* [a, b] lies within [c, d] and is not the whole of it (all four in one
\* timezone, compared on their seven fields).
StrictlyInside(a, b, c, d) ==
    /\ LE(c.f, a.f, ALLNAMES)
    /\ LE(b.f, d.f, ALLNAMES)
    /\ Cmp(c.f, a.f, ALLNAMES) < 0 \/ Cmp(b.f, d.f, ALLNAMES) < 0

(* C12 as stated: every iteration of the search loop that goes on leaves    *)
(* an interval [lo, hi] that lies within the one before it and is strictly  *)
(* smaller, whatever candidate was drawn in [lo, hi], lo and hi included.   *)
C12_StrictlyShrinks ==
    [][(pc = "bisect" /\ iters' = iters + 1) => StrictlyInside(lo', hi', lo, hi)]_vars


\* An aware-datetime draw has completed: a value was returned, or was
\* rejected as imaginary after its group was closed.
AwareDrawCompleted ==
    /\ strat.kind = "DatetimeStrategy"
    /\ tz # NoTz
    /\ pc = "done"
    /\ outcome \in {"returned", "invalid"}
    /\ data.failures = 0

(* C13: in an aware-datetime draw groups are never open inside one another  *)
(* and every capped field draw is made inside an open group; when the draw  *)
(* completes every group is closed, every group but the last was closed     *)
(* with discard=True (the first candidate that was given up and every       *)
(* candidate of the search), the last was closed without discard, and its   *)
(* field draws are the fields of the value returned.                        *)
C13_GroupsPaired ==
    strat.kind = "DatetimeStrategy" =>
        /\ data.depth \in {0, 1}
        /\ (tz # NoTz /\ pc \in {"field", "fold", "first", "bisect", "replay"})
               => (data.depth = 1 /\ Len(data.closed) = data.calls - 1
                   /\ \A i \in DOMAIN data.closed : data.closed[i])
        /\ (tz = NoTz /\ "tz" \in data.made) => (data.depth = 0 /\ data.closed = <<>>)
        /\ AwareDrawCompleted
               => /\ data.depth = 0
                  /\ Len(data.closed) = data.calls
                  /\ Len(data.closed) >= 1
                  /\ \A i \in DOMAIN data.closed :
                         data.closed[i] <=> (i < Len(data.closed))
                  /\ SameFields(result.f, frame.result, ALLNAMES)
                  /\ result.f.fold = frame.result.fold
                  /\ {"tz", "bits"} \subseteq data.made

\* A draw that gave up its first candidate and one candidate of the search
\* has completed with the replayed value.
C13_Witness ==
    /\ AwareDrawCompleted
    /\ outcome = "returned"
    /\ data.closed = <<TRUE, TRUE, FALSE>>


\* The search loop has been entered: a candidate is drawn between lo and hi,
\* or was, or the nasty value it found is replayed.
LoopEntered == frame.ret \in {"bisect", "replay"}

(* C14: with a timezone, do_draw makes the 2-bit draw once and takes        *)
(* exactly one of its four outcomes as the request to be nasty. The search  *)
(* loop is entered only if that was requested, the first candidate is not   *)
(* nasty and get_nasty_bounds returned an interval for it; if one of the    *)
(* three fails the first candidate goes to the imaginary-time check and no  *)
(* second capped draw is made. With a null timezone there is no 2-bit draw, *)
(* no group and no search.                                                  *)
C14_LoopEntry ==
    strat.kind = "DatetimeStrategy" =>
        /\ Cardinality({b \in 0..3 : TryToBeNasty(b)}) = 1
        /\ pc = "bits" => (tz # NoTz /\ "bits" \notin data.made /\ data.calls = 0)
        /\ (tz # NoTz /\ data.calls > 0) => "bits" \in data.made
        /\ (LoopEntered /\ iters = 0 /\ pc \in {"field", "fold", "bisect"})
               => /\ try_to_be_nasty
                  /\ ~datetime_is_nasty(result).raised
                  /\ ~datetime_is_nasty(result).val
                  /\ lo # NoValue
                  /\ hi # NoValue
        /\ LoopEntered => (try_to_be_nasty /\ data.calls > 1 /\ tz # NoTz)
        /\ (pc = "check" /\ ~LoopEntered)
               => /\ \/ ~try_to_be_nasty
                     \/ datetime_is_nasty(result).val
                     \/ lo = NoValue
                  /\ frame.ret = "first"
        /\ (tz # NoTz /\ ~LoopEntered)
               => /\ data.calls <= 1
                  /\ iters = 0
                  /\ outcome = "returned" => SameFields(result.f, frame.result, ALLNAMES)
        /\ (tz = NoTz /\ "tz" \in data.made)
               => /\ "bits" \notin data.made
                  /\ data.depth = 0
                  /\ data.closed = <<>>
                  /\ data.calls = 1
                  /\ iters = 0
                  /\ frame.ret = "naive"

\* The first candidate of a search is about to be looked at: nastiness was
\* requested and the first candidate of the draw was not nasty.
C14_Witness ==
    /\ strat.kind = "DatetimeStrategy"
    /\ pc = "bisect"
    /\ iters = 0
    /\ try_to_be_nasty
    /\ ~datetime_is_nasty(result).val
    /\ data.calls = 2


\* The half (a, b) qualifies: the UTC offset of the timezone differs between
\* its ends, or a leap second lies in it more than 12 hours from both ends.
HalfQualifies(a, b) ==
    \/ utcoffset(a.tzinfo, a.f) # utcoffset(b.tzinfo, b.f)
    \/ /\ astimezone_utc(a).ok
       /\ astimezone_utc(b).ok
       /\ \E i \in DOMAIN leapsecs :
              /\ InstLess(astimezone_utc(a).t,
                          InstAdd(ToInstant(leapsecs[i].f), -HalfDay))
              /\ InstLess(InstAdd(ToInstant(leapsecs[i].f), HalfDay),
                          astimezone_utc(b).t)

\* 2000-01-01 00:00 lies in [a, b], on the clock of their timezone.
ContainsY2K(a, b) == LE(a.f, Y2K, ALLNAMES) /\ LE(Y2K, b.f, ALLNAMES)

C16_BuiltOnce ==
    /\ cache.builds <= 1
    /\ \A t, u \in DOMAIN threads :
           \A i \in DOMAIN threads[t].returned, j \in DOMAIN threads[u].returned :
               threads[t].returned[i] = threads[u].returned[j]


====
